---- MODULE Spec2Model ----
(***************************************************************************)
(* Model of app.py: the transaction normalizer (process_transactions and   *)
(* its helpers) and the two HTTP handlers that share transactions.pkl.     *)
(*                                                                         *)
(* Python str values are sequences of one-character strings, so that       *)
(* strip(), lower() and the `in` substring test are computed, not assumed. *)
(* A cell of a pandas column is a tagged record: NaN (missing), a number,  *)
(* a string, a timestamp or NaT.  Amounts are integers (the float64        *)
(* rounding of sums is outside the model).                                 *)
(***************************************************************************)
EXTENDS Integers, Sequences, FiniteSets, TLC

VARIABLES
  GROQ_API_KEY,   \* module global (line 28, 409): None or the credential
  GROQ_MODEL,     \* module global (line 29, 410): None or the model identifier
  client,         \* module global (line 30, 411): None or a Groq client
  started,        \* whether the startup hook has run and requests are served
  store,          \* transactions.pkl: NoFile, a pickled DataFrame, or Partial
  last,           \* the last request and the response the caller received
  nfile,          \* normalizer harness: the file given to process_transactions
  nres            \* normalizer harness: what process_transactions returned

vars == <<GROQ_API_KEY, GROQ_MODEL, client, started, store, last, nfile, nres>>
svars == <<GROQ_API_KEY, GROQ_MODEL, client, started, store, last>>

\* ------------------------------------------------------------------ bounds
\* Largest number of data rows of a generated input table.
MaxRows == 2

\* Largest number of data rows of a file sent to the upload endpoint.
MaxUploadRows == 1

\* --------------------------------------------------------- Python strings
UpperAlpha == <<"A","B","C","D","E","F","G","H","I","J","K","L","M","N","O","P","Q","R","S","T","U","V","W","X","Y","Z">>
LowerAlpha == <<"a","b","c","d","e","f","g","h","i","j","k","l","m","n","o","p","q","r","s","t","u","v","w","x","y","z">>
Digits == <<"0","1","2","3","4","5","6","7","8","9">>

Range(s) == {s[i] : i \in DOMAIN s}

\* str.lower() on one character, then on a string.
lower_char(c) ==
  IF \E i \in DOMAIN UpperAlpha : UpperAlpha[i] = c
  THEN LowerAlpha[CHOOSE i \in DOMAIN UpperAlpha : UpperAlpha[i] = c]
  ELSE c

lower(s) == [i \in DOMAIN s |-> lower_char(s[i])]

\* Python's `sub in s` for strings.
Contains(sub, s) ==
  \E i \in 1..(Len(s) - Len(sub) + 1) : SubSeq(s, i, i + Len(sub) - 1) = sub

\* str.strip(): leading and trailing blanks removed.
RECURSIVE lstrip(_)
lstrip(s) == IF s # <<>> /\ Head(s) = " " THEN lstrip(Tail(s)) ELSE s

RECURSIVE rstrip(_)
rstrip(s) ==
  IF s # <<>> /\ s[Len(s)] = " " THEN rstrip(SubSeq(s, 1, Len(s) - 1)) ELSE s

strip(s) == rstrip(lstrip(s))

\* str(n) for an integer n.
RECURSIVE nat_str(_)
nat_str(n) ==
  IF n < 10 THEN <<Digits[n + 1]>> ELSE Append(nat_str(n \div 10), Digits[(n % 10) + 1])

int_str(n) == IF n < 0 THEN <<"-">> \o nat_str(0 - n) ELSE nat_str(n)

\* ------------------------------------------------------------------ cells
NaN == [t |-> "nan"]
NaT == [t |-> "nat"]
Num(n) == [t |-> "num", v |-> n]
Str(s) == [t |-> "str", v |-> s]
Timestamp(y, m, d) == [t |-> "date", y |-> y, m |-> m, d |-> d]
None == [t |-> "None"]

\* The value of a string of decimal digits.
RECURSIVE digits_value(_)
digits_value(s) ==
  IF s = <<>> THEN 0
  ELSE 10 * digits_value(SubSeq(s, 1, Len(s) - 1))
       + ((CHOOSE i \in DOMAIN Digits : Digits[i] = s[Len(s)]) - 1)

is_digits(s) == s # <<>> /\ \A i \in DOMAIN s : s[i] \in Range(Digits)

\* pd.to_numeric(..., errors="coerce") on one cell: a number stays, a string
\* that spells an integer is parsed, anything else becomes NaN.
to_numeric(c) ==
  IF c.t = "num" THEN c
  ELSE IF c.t = "str"
    THEN LET s == strip(c.v) IN
         IF is_digits(s) THEN Num(digits_value(s))
         ELSE IF s # <<>> /\ Head(s) = "-" /\ is_digits(Tail(s))
           THEN Num(0 - digits_value(Tail(s)))
           ELSE NaN
    ELSE NaN

\* Series.fillna(value) on one cell.
fillna(c, value) == IF c.t = "nan" \/ c.t = "nat" THEN value ELSE c

\* Series.astype(str) on one cell.
astype_str(c) ==
  IF c.t = "str" THEN c
  ELSE IF c.t = "num" THEN Str(int_str(c.v))
  ELSE Str(<<"n","a","n">>)

\* pd.to_datetime(..., errors="coerce") on one cell: a date stays, a number
\* is an offset from the epoch, an unparseable string or a missing cell is NaT.
to_datetime(c) ==
  IF c.t = "date" THEN c
  ELSE IF c.t = "num" THEN Timestamp(1970, 1, 1)
  ELSE NaT

\* A faulty variant of strftime_Ym: a missing date is formatted as a month of its own
\* (the string "NaT") instead of staying missing.
strftime_Ym_nat_bucket(c) ==
  IF c.t = "date" THEN [t |-> "month", y |-> c.y, m |-> c.m]
  ELSE [t |-> "month", y |-> 0, m |-> 0]

\* Series.dt.strftime("%Y-%m") on one cell: the day is dropped, NaT gives NaN.
strftime_Ym(c) == IF c.t = "date" THEN [t |-> "month", y |-> c.y, m |-> c.m] ELSE NaN

\* -------------------------------------------------------------- sequences
RECURSIVE SumSeq(_)
SumSeq(s) == IF s = <<>> THEN 0 ELSE Head(s) + SumSeq(Tail(s))

RECURSIVE SumFn(_)
SumFn(f) ==
  IF DOMAIN f = {} THEN 0
  ELSE LET k == CHOOSE x \in DOMAIN f : TRUE
       IN f[k] + SumFn([x \in DOMAIN f \ {k} |-> f[x]])

\* A list comprehension [x for x in s if keep(x)]: the items of s whose flag
\* in the sequence keep is TRUE, in order.
Filter(s, keep) ==
  LET F[i \in 0..Len(s)] ==
        IF i = 0 THEN <<>>
        ELSE IF keep[i] THEN Append(F[i - 1], s[i]) ELSE F[i - 1]
  IN F[Len(s)]

\* The amounts of a column as plain numbers.
values(series) == [i \in DOMAIN series |-> series[i].v]

\* ------------------------------------------------------------- categorize
\* app.py categorize(desc)
categorize(desc) ==
  IF desc = None THEN <<"O","t","h","e","r","s">>
  ELSE LET d == lower(astype_str(desc).v) IN
    IF Contains(<<"s","a","l","a","r","y">>, d) THEN <<"I","n","c","o","m","e">>
    ELSE IF Contains(<<"f","u","e","l">>, d) \/ Contains(<<"d","i","e","s","e","l">>, d) THEN <<"F","u","e","l">>
    ELSE IF Contains(<<"z","o","m","a","t","o">>, d) \/ Contains(<<"s","w","i","g","g","y">>, d)
            \/ Contains(<<"r","e","s","t","a","u","r","a","n","t">>, d) THEN <<"F","o","o","d">>
    ELSE IF Contains(<<"a","m","a","z","o","n">>, d) \/ Contains(<<"f","l","i","p","k","a","r","t">>, d) THEN <<"S","h","o","p","p","i","n","g">>
    ELSE IF Contains(<<"m","u","t","u","a","l"," ","f","u","n","d">>, d) \/ Contains(<<"s","i","p">>, d) THEN <<"I","n","v","e","s","t","m","e","n","t","s">>
    ELSE IF Contains(<<"u","p","i">>, d) \/ Contains(<<"t","r","a","n","s","f","e","r">>, d)
            \/ Contains(<<"g","o","o","g","l","e"," ","p","a","y">>, d) \/ Contains(<<"g","p","a","y">>, d) THEN <<"T","r","a","n","s","f","e","r","s">>
    ELSE <<"O","t","h","e","r","s">>

\* --------------------------------------------------------- _detect_columns
DescVocabulary ==
  {<<"d","e","s","c","r","i","p","t","i","o","n">>, <<"n","a","r","r","a","t","i","o","n">>, <<"d","e","t","a","i","l","s">>, <<"r","e","m","a","r","k","s">>, <<"p","a","r","t","i","c","u","l","a","r","s">>}

AmountVocabulary == {<<"a","m","o","u","n","t">>, <<"a","m","t">>, <<"v","a","l","u","e">>, <<"d","e","b","i","t">>, <<"c","r","e","d","i","t">>}

is_desc_exact(c) == lower(c) \in DescVocabulary

is_desc_loose(c) ==
  Contains(<<"d","e","s","c">>, c) \/ Contains(<<"n","a","r","r">>, c) \/ Contains(<<"p","a","r","t","i","c","u","l","a","r">>, c)

is_amt_exact(c) == Contains(<<"a","m","o","u","n","t">>, lower(c)) \/ lower(c) \in AmountVocabulary

is_amt_loose(c) ==
  Contains(<<"a","m","t">>, c) \/ Contains(<<"d","e","b","i","t">>, c) \/ Contains(<<"c","r","e","d","i","t">>, c)
    \/ Contains(<<"b","a","l","a","n","c","e">>, c)

is_date_like(c) ==
  Contains(<<"d","a","t","e">>, lower(c)) \/ Contains(<<"t","x","n"," ","d","a","t","e">>, lower(c))
    \/ Contains(<<"t","r","a","n","s","a","c","t","i","o","n"," ","d","a","t","e">>, lower(c))

\* The first item of a list, or None for the empty list.
first_or_none(l) == IF l = <<>> THEN None ELSE l[1]

\* The candidates of one role: the exact matches in column order, else the
\* first column whose lower-cased name passes the loose test.
candidates(cols, exact_flags, loose_flags) ==
  LET exact == Filter(cols, exact_flags)
      loose == Filter(cols, loose_flags)
  IN IF exact # <<>> THEN exact
     ELSE IF loose # <<>> THEN <<loose[1]>> ELSE <<>>

_detect_columns(columns) ==
  LET cols == [i \in DOMAIN columns |-> strip(columns[i])]
      desc_candidates ==
        candidates(cols, [i \in DOMAIN cols |-> is_desc_exact(cols[i])],
                   [i \in DOMAIN cols |-> is_desc_loose(lower(cols[i]))])
      amt_candidates ==
        candidates(cols, [i \in DOMAIN cols |-> is_amt_exact(cols[i])],
                   [i \in DOMAIN cols |-> is_amt_loose(lower(cols[i]))])
      date_candidates == Filter(cols, [i \in DOMAIN cols |-> is_date_like(cols[i])])
  IN [desc |-> first_or_none(desc_candidates),
      amt |-> first_or_none(amt_candidates),
      date |-> first_or_none(date_candidates)]

\* -------------------------------------------------------------- DataFrame
\* A DataFrame: the column names in order, one series (a sequence of cells)
\* per column, and the number of rows.
DataFrame(table) ==
  [columns |-> table.cols,
   len |-> Len(table.rows),
   col |-> [c \in Range(table.cols) |->
              LET j == CHOOSE j \in DOMAIN table.cols : table.cols[j] = c
              IN [i \in 1..Len(table.rows) |-> table.rows[i][j]]]]

\* df.columns = df.columns.str.strip()
strip_columns(df) ==
  [columns |-> [i \in DOMAIN df.columns |-> strip(df.columns[i])],
   len |-> df.len,
   col |-> [c \in {strip(x) : x \in Range(df.columns)} |->
              df.col[CHOOSE x \in Range(df.columns) : strip(x) = c]]]

\* df[name] = series: an existing column is overwritten, a new one appended.
set_col(df, name, series) ==
  [columns |-> IF name \in Range(df.columns) THEN df.columns
               ELSE Append(df.columns, name),
   len |-> df.len,
   col |-> [c \in Range(df.columns) \cup {name} |->
              IF c = name THEN series ELSE df.col[c]]]

\* Series.isna().all()
isna_all(series) == \A i \in DOMAIN series : series[i].t = "nan"

isna(k) == k = NaN \/ k = NaT \/ k = None

\* df.groupby(key)[...].sum().to_dict(): rows whose key is missing are dropped.
groupby_sum(keys, amounts) ==
  LET present == {i \in DOMAIN keys : ~isna(keys[i])}
      sumOf(k) == SumSeq([i \in DOMAIN keys |-> IF keys[i] = k THEN amounts[i].v ELSE 0])
  IN [k \in {keys[i] : i \in present} |-> sumOf(k)]

\* An exception raised by the code, and a normal return.
Raise(exc, msg, columns) == [ok |-> FALSE, exc |-> exc, msg |-> msg, columns |-> columns]

\* Series.replace(to_replace, value) called with a scalar to_replace and a
\* Series as value (line 144).  pandas treats a Series value as dict-like and
\* a Series cannot be replaced column-wise: NDFrame.replace raises
\* ValueError("Series.replace cannot use dict-value and non-None to_replace").
replace_by_series(series, to_replace, value) ==
  Raise("ValueError", "Series.replace cannot use dict-value and non-None to_replace", <<>>)

\* The last column of df whose lower-cased name is exactly `word` (lines 109-114).
last_named(columns, word) ==
  LET hits == Filter(columns, [i \in DOMAIN columns |-> lower(columns[i]) = word])
  IN IF hits = <<>> THEN None ELSE hits[Len(hits)]

\* Lines 101-118: the canonical Description and Amount columns.
resolve_amount(df0, desc_col, amt_col) ==
  LET df1 == set_col(df0, <<"D","e","s","c","r","i","p","t","i","o","n">>,
                     [i \in 1..df0.len |->
                        astype_str(fillna(df0.col[desc_col][i], Str(<<>>)))])
      df2 == set_col(df1, <<"A","m","o","u","n","t">>,
                     [i \in 1..df1.len |-> to_numeric(df1.col[amt_col][i])])
      debit_col == last_named(df2.columns, <<"d","e","b","i","t">>)
      credit_col == last_named(df2.columns, <<"c","r","e","d","i","t">>)
      fallback == debit_col # None /\ credit_col # None /\ isna_all(df2.col[<<"A","m","o","u","n","t">>])
      df3 == IF fallback
             THEN set_col(df2, <<"A","m","o","u","n","t">>,
                    [i \in 1..df2.len |->
                       Num(fillna(to_numeric(df2.col[credit_col][i]), Num(0)).v
                           - fillna(to_numeric(df2.col[debit_col][i]), Num(0)).v)])
             ELSE df2
  IN set_col(df3, <<"A","m","o","u","n","t">>,
             [i \in 1..df3.len |-> fillna(to_numeric(df3.col[<<"A","m","o","u","n","t">>][i]), Num(0))])

DateFallbackNames == <<<<"D","a","t","e">>, <<"d","a","t","e">>, <<"T","x","n"," ","D","a","t","e">>, <<"T","r","a","n","s","a","c","t","i","o","n"," ","D","a","t","e">>>>

\* Lines 120-132: the Date column.
derive_date(df, date_col) ==
  IF date_col # None /\ date_col \in Range(df.columns)
  THEN set_col(df, <<"D","a","t","e">>, [i \in 1..df.len |-> to_datetime(df.col[date_col][i])])
  ELSE LET found == Filter(DateFallbackNames,
                           [i \in DOMAIN DateFallbackNames |->
                              DateFallbackNames[i] \in Range(df.columns)])
       IN IF found = <<>> THEN df
          ELSE set_col(df, <<"D","a","t","e">>,
                       [i \in 1..df.len |-> to_datetime(df.col[found[1]][i])])

\* pd.api.types.is_datetime64_any_dtype
is_datetime64_any_dtype(series) == \A i \in DOMAIN series : series[i].t \in {"date", "nat"}

has_month(df) ==
  <<"D","a","t","e">> \in Range(df.columns) /\ is_datetime64_any_dtype(df.col[<<"D","a","t","e">>])

\* Lines 134-139: the Month column.
derive_month(df) ==
  IF has_month(df)
  THEN set_col(df, <<"M","o","n","t","h">>, [i \in 1..df.len |-> strftime_Ym(df.col[<<"D","a","t","e">>][i])])
  ELSE set_col(df, <<"M","o","n","t","h">>, [i \in 1..df.len |-> None])

monthly_summary_of(df) ==
  IF has_month(df) THEN groupby_sum(df.col[<<"M","o","n","t","h">>], df.col[<<"A","m","o","u","n","t">>])
  ELSE [k \in {} |-> 0]

\* Lines 141-144: the Category column; the result is a series or an exception.
derive_category(df) ==
  LET computed == [i \in 1..df.len |-> Str(categorize(df.col[<<"D","e","s","c","r","i","p","t","i","o","n">>][i]))]
  IN IF <<"C","a","t","e","g","o","r","y">> \notin Range(df.columns)
     THEN [ok |-> TRUE, series |-> computed]
     ELSE replace_by_series([i \in 1..df.len |->
                               fillna(df.col[<<"C","a","t","e","g","o","r","y">>][i], Str(<<>>))],
                            Str(<<>>), computed)

category_summary_of(df) ==
  groupby_sum(values(df.col[<<"C","a","t","e","g","o","r","y">>]), df.col[<<"A","m","o","u","n","t">>])

total_income_of(df) ==
  SumSeq(Filter(values(df.col[<<"A","m","o","u","n","t">>]),
                [i \in 1..df.len |-> df.col[<<"A","m","o","u","n","t">>][i].v > 0]))

\* A faulty variant of total_expense_of: the expenses are summed as positive magnitudes.
total_expense_magnitude(df) ==
  SumSeq(Filter([i \in 1..df.len |-> 0 - df.col[<<"A","m","o","u","n","t">>][i].v],
                [i \in 1..df.len |-> df.col[<<"A","m","o","u","n","t">>][i].v < 0]))

total_expense_of(df) ==
  SumSeq(Filter(values(df.col[<<"A","m","o","u","n","t">>]),
                [i \in 1..df.len |-> df.col[<<"A","m","o","u","n","t">>][i].v < 0]))

net_balance_of(df) == SumSeq(values(df.col[<<"A","m","o","u","n","t">>]))

\* Lines 148-155
summary_of(df) ==
  [total_income |-> total_income_of(df),
   total_expense |-> total_expense_of(df),
   net_balance |-> net_balance_of(df),
   monthly_summary |-> monthly_summary_of(df),
   category_summary |-> category_summary_of(df),
   rows |-> df.len]

\* Lines 141-157: the Category column, then the summary.
finish(df, cat) ==
  IF ~cat.ok THEN cat
  ELSE [ok |-> TRUE, df |-> set_col(df, <<"C","a","t","e","g","o","r","y">>, cat.series),
        summary |-> summary_of(set_col(df, <<"C","a","t","e","g","o","r","y">>, cat.series))]

categorize_and_summarize(df) == finish(df, derive_category(df))

\* Lines 98-157: the table once its columns are detected.
normalize(df0, det) ==
  IF det.desc = None \/ det.amt = None
  THEN Raise("ValueError", "Could not detect required columns.", df0.columns)
  ELSE categorize_and_summarize(
         derive_month(derive_date(resolve_amount(df0, det.desc, det.amt), det.date)))

\* Lines 95-96
detect_and_normalize(df0) == normalize(df0, _detect_columns(df0.columns))

\* app.py process_transactions(file_path): the file is what was saved under
\* file_path; the result is (df, summary) or the exception raised.
process_transactions(file) ==
  IF ~file.readable THEN Raise("ValueError", "Failed to read file", <<>>)
  ELSE IF file.table.rows = <<>> \/ file.table.cols = <<>>
    THEN Raise("ValueError", "Uploaded file contains no data.", <<>>)
  ELSE detect_and_normalize(strip_columns(DataFrame(file.table)))

\* ------------------------------------------------------------ input files
Column(name, cells) == [name |-> name, cells |-> cells]

DescCells ==
  {NaN, Str(<<"S","A","L","A","R","Y"," ","C","R","E","D","I","T">>), Str(<<"Z","O","M","A","T","O"," ","O","R","D","E","R">>), Str(<<"A","m","a","z","o","n"," ","S","I","P"," ","v","i","a"," ","U","P","I">>)}
OneDesc == {Str(<<"r","e","n","t">>)}
AmountCells == {NaN, Str(<<"n","/","a">>), Num(0 - 450), Num(50000)}
SignedCells == {NaN, Num(0 - 100), Num(500)}
DebitCells == {NaN, Num(0), Num(100), Num(500)}
TextAmountCells == {Str(<<"1","2">>), Str(<<"-","7">>), Str(<<"n","/","a">>)}
DateCells == {NaN, Str(<<"s","o","o","n">>), Timestamp(2024, 1, 15), Timestamp(2024, 2, 3)}
CategoryCells == {NaN, Str(<<>>), Str(<<"R","e","n","t">>)}

\* The column layouts of the generated bank exports.
Layouts ==
  { <<Column(<<" ","N","a","r","r","a","t","i","o","n"," ">>, DescCells), Column(<<"A","m","o","u","n","t">>, AmountCells)>>,
    <<Column(<<"D","e","s","c","r","i","p","t","i","o","n">>, OneDesc), Column(<<"D","e","b","i","t">>, DebitCells),
      Column(<<"C","r","e","d","i","t">>, DebitCells)>>,
    <<Column(<<"D","e","s","c","r","i","p","t","i","o","n">>, OneDesc), Column(<<"C","r","e","d","i","t">>, DebitCells),
      Column(<<"D","e","b","i","t">>, DebitCells)>>,
    <<Column(<<"D","e","s","c","r","i","p","t","i","o","n">>, OneDesc), Column(<<"D","e","b","i","t">>, {NaN, Num(100)}),
      Column(<<"C","r","e","d","i","t">>, {Num(0), Num(500)}), Column(<<"A","m","o","u","n","t">>, SignedCells)>>,
    <<Column(<<"D","e","s","c","r","i","p","t","i","o","n">>, OneDesc), Column(<<"A","m","o","u","n","t">>, SignedCells),
      Column(<<"D","e","b","i","t">>, {NaN, Num(100)}), Column(<<"C","r","e","d","i","t">>, {Num(0), Num(500)})>>,
    <<Column(<<"D","E","T","A","I","L","S">>, OneDesc), Column(<<"A","m","o","u","n","t">>, SignedCells),
      Column(<<"D","a","t","e">>, DateCells)>>,
    <<Column(<<"D","e","s","c","r","i","p","t","i","o","n">>, {NaN, Str(<<"Z","O","M","A","T","O"," ","O","R","D","E","R">>)}),
      Column(<<"A","m","o","u","n","t">>, {Num(0 - 450), Num(500)}),
      Column(<<"C","a","t","e","g","o","r","y">>, CategoryCells)>>,
    <<Column(<<"T","x","n"," ","D","e","s","c">>, OneDesc), Column(<<"T","x","n"," ","A","m","t">>, TextAmountCells),
      Column(<<"V","a","l","u","e"," ","D","a","t","e">>, {NaN, Timestamp(2024, 1, 15)})>>,
    <<Column(<<"N","o","t","e","s">>, OneDesc), Column(<<"A","m","o","u","n","t">>, {Num(500)})>>,
    <<Column(<<"D","e","s","c","r","i","p","t","i","o","n">>, OneDesc), Column(<<"N","o","t","e","s">>, {NaN})>> }

\* Every row a layout allows: one cell per column.
RECURSIVE RowsOf(_)
RowsOf(layout) ==
  IF layout = <<>> THEN {<<>>}
  ELSE {<<c>> \o r : c \in layout[1].cells, r \in RowsOf(Tail(layout))}

TablesOf(layout, maxRows) ==
  {[cols |-> [i \in DOMAIN layout |-> layout[i].name], rows |-> rows] :
     rows \in UNION {[1..n -> RowsOf(layout)] : n \in 0..maxRows}}

\* An uploaded file: its name, whether the reader the code picks for it can
\* parse its bytes, and the table it holds.
File(name, readable, table) == [name |-> name, readable |-> readable, table |-> table]

NoTable == [cols |-> <<>>, rows |-> <<>>]

\* The files the normalizer is run on: every table of up to MaxRows rows of
\* every layout, and a file no reader can parse.
NormFiles ==
  {File(<<"b","a","n","k",".","c","s","v">>, TRUE, t) : t \in UNION {TablesOf(l, MaxRows) : l \in Layouts}}
    \cup {File(<<"b","a","n","k",".","x","l","s","x">>, FALSE, NoTable)}

\* The files a client uploads: small tables of a few layouts, a file that
\* cannot be parsed, and a file with an unsupported extension.
UploadLayouts ==
  { <<Column(<<" ","N","a","r","r","a","t","i","o","n"," ">>, {Str(<<"S","A","L","A","R","Y"," ","C","R","E","D","I","T">>)}),
      Column(<<"A","m","o","u","n","t">>, {Num(50000)})>>,
    <<Column(<<"D","e","s","c","r","i","p","t","i","o","n">>, OneDesc), Column(<<"D","e","b","i","t">>, {Num(100)}),
      Column(<<"C","r","e","d","i","t">>, {Num(0)})>>,
    <<Column(<<"D","e","s","c","r","i","p","t","i","o","n">>, OneDesc), Column(<<"A","m","o","u","n","t">>, {Num(500)}),
      Column(<<"C","a","t","e","g","o","r","y">>, {Str(<<"R","e","n","t">>)})>>,
    <<Column(<<" ","N","o","t","e","s">>, OneDesc), Column(<<"A","m","o","u","n","t">>, {Num(500)})>>,
    <<Column(<<"D","e","s","c","r","i","p","t","i","o","n">>, OneDesc), Column(<<"N","o","t","e","s">>, {NaN})>> }

UploadFiles ==
  {File(<<"B","a","n","k",".","C","S","V">>, TRUE, t) : t \in UNION {TablesOf(l, MaxUploadRows) : l \in UploadLayouts}}
    \cup {File(<<"b","a","n","k",".","x","l","s","x">>, FALSE, NoTable)}
    \cup {File(<<"n","o","t","e","s",".","t","x","t">>, TRUE, NoTable)}

\* ------------------------------------------------------------ HTTP layer
\* transactions.pkl
NoFile == [t |-> "NoFile"]
Partial == [t |-> "Partial"]
Pickle(df) == [t |-> "pickle", df |-> df]

\* The values os.getenv can give a setting: unset, empty, or a value.
EnvValues == {None, Str(<<>>), Str(<<"s","e","t">>)}

\* Python truthiness of a setting.
Truthy(v) == v # None /\ v.v # <<>>

\* Groq(api_key=GROQ_API_KEY) if GROQ_API_KEY else None
make_client(key) == IF Truthy(key) THEN [t |-> "Groq"] ELSE None

\* str.endswith
endswith(s, suffix) ==
  Len(s) >= Len(suffix) /\ SubSeq(s, Len(s) - Len(suffix) + 1, Len(s)) = suffix

supported_extension(filename) ==
  \E ext \in {<<".","x","l","s","x">>, <<".","x","l","s">>, <<".","c","s","v">>} : endswith(lower(filename), ext)

HTTPException(status, detail, columns) ==
  [status |-> status, detail |-> detail, columns |-> columns]

\* A faulty variant of processing_error: every exception of process_transactions is
\* reported as a server error.
processing_error_all_500(r) == HTTPException(500, "Processing failed", r.columns)

\* Lines 243-249: what upload_excel makes of an exception of process_transactions.
processing_error(r) ==
  IF r.exc = "ValueError" THEN HTTPException(400, r.msg, r.columns)
  ELSE HTTPException(500, "Processing failed", <<>>)

\* df.to_pickle("transactions.pkl") inside try/except (lines 251-254): the
\* write succeeds, or fails before the file is opened, or fails after the
\* file was truncated; a failure is logged and swallowed.
PickleOutcomes == {"written", "not_opened", "truncated"}

to_pickle(df, outcome, st) ==
  IF outcome = "written" THEN Pickle(df)
  ELSE IF outcome = "not_opened" THEN st
  ELSE Partial

\* process_transactions(file_path) for each file a client may upload, tabulated
\* once: the call of line 244 looks its result up here.
ProcessedUploads == [f \in UploadFiles |-> process_transactions(f)]

\* Lines 243-256: the response to a saved file and the new content of the store.
process_and_store(r, pickle_outcome, st) ==
  IF ~r.ok THEN [resp |-> processing_error(r), store |-> st]
  ELSE [resp |-> [status |-> 200, detail |-> "File uploaded & processed successfully!",
                  columns |-> <<>>, summary |-> r.summary],
        store |-> to_pickle(r.df, pickle_outcome, st)]

\* app.py upload_excel(file): the response and the new content of the store.
upload_excel(file, save_ok, pickle_outcome, st) ==
  IF ~supported_extension(file.name)
  THEN [resp |-> HTTPException(400, "Unsupported file type", <<>>), store |-> st]
  ELSE IF ~save_ok
  THEN [resp |-> HTTPException(500, "Failed to save uploaded file", <<>>), store |-> st]
  ELSE process_and_store(ProcessedUploads[file], pickle_outcome, st)

\* app.py ask_ai(df, user_question): the answer or the RuntimeError raised.
LlmOutcomes == {"answer", "decommissioned", "failed"}

ask_ai(df, cl, model, llm) ==
  IF cl = None \/ ~Truthy(model)
  THEN Raise("RuntimeError", "Groq API key or model not configured", <<>>)
  ELSE IF llm = "answer" THEN [ok |-> TRUE, answer |-> "content"]
  ELSE IF llm = "decommissioned"
    THEN Raise("RuntimeError", "Configured Groq model appears decommissioned", <<>>)
    ELSE Raise("RuntimeError", "LLM request failed", <<>>)

\* pd.read_pickle("transactions.pkl")
read_pickle(st) ==
  IF st = NoFile THEN Raise("FileNotFoundError", "No such file", <<>>)
  ELSE IF st = Partial THEN Raise("UnpicklingError", "truncated", <<>>)
  ELSE [ok |-> TRUE, df |-> st.df]

\* A faulty variant of query_financial: the first check covers the model identifier as
\* well as the client.
query_financial_pair_first(cl, model, st, llm) ==
  IF cl = None \/ ~Truthy(model)
  THEN [status |-> 503, detail |-> "Groq API key not configured on server.", read |-> None]
  ELSE IF st = NoFile
    THEN [status |-> 404, detail |-> "No processed transactions found. Upload first.",
          read |-> None]
  ELSE IF st = Partial
    THEN [status |-> 500, detail |-> "Failed to load saved transactions", read |-> None]
  ELSE IF llm = "answer" THEN [status |-> 200, detail |-> "content", read |-> st.df]
  ELSE [status |-> 502, detail |-> "LLM request failed", read |-> st.df]

\* app.py query_financial(question): the response, with what was read.
query_financial(cl, model, st, llm) ==
  IF cl = None
  THEN [status |-> 503, detail |-> "Groq API key not configured on server.", read |-> None]
  ELSE LET rd == read_pickle(st) IN
    IF ~rd.ok
    THEN IF rd.exc = "FileNotFoundError"
         THEN [status |-> 404, detail |-> "No processed transactions found. Upload first.",
               read |-> None]
         ELSE [status |-> 500, detail |-> "Failed to load saved transactions", read |-> None]
    ELSE LET a == ask_ai(rd.df, cl, model, llm) IN
         IF ~a.ok THEN [status |-> 502, detail |-> a.msg, read |-> rd.df]
         ELSE [status |-> 200, detail |-> a.answer, read |-> rd.df]

\* ------------------------------------------------------------- the server
\* Module import (lines 28-30) followed by the startup hook (lines 402-411),
\* which reloads both settings from the environment.
Startup ==
  /\ ~started
  /\ \E key \in EnvValues, model \in EnvValues :
       /\ GROQ_API_KEY' = key
       /\ GROQ_MODEL' = model
       /\ client' = make_client(key)
  /\ started' = TRUE
  /\ UNCHANGED <<store, last, nfile, nres>>

\* The effect of one upload: the store as the handler left it, and the
\* request with the response the caller received.
Served(file, save_ok, u) ==
  /\ store' = u.store
  /\ last' = [op |-> "upload", file |-> file, save_ok |-> save_ok,
              before |-> store, resp |-> u.resp]

\* POST /upload/
Upload ==
  /\ started
  /\ \E file \in UploadFiles, save_ok \in BOOLEAN, outcome \in PickleOutcomes :
       Served(file, save_ok, upload_excel(file, save_ok, outcome, store))
  /\ UNCHANGED <<GROQ_API_KEY, GROQ_MODEL, client, started, nfile, nres>>

\* GET /query/
Query ==
  /\ started
  /\ \E llm \in LlmOutcomes :
       last' = [op |-> "query", before |-> store,
                resp |-> query_financial(client, GROQ_MODEL, store, llm)]
  /\ UNCHANGED <<GROQ_API_KEY, GROQ_MODEL, client, started, store, nfile, nres>>

Init ==
  /\ \E key \in EnvValues, model \in EnvValues :
       /\ GROQ_API_KEY = key
       /\ GROQ_MODEL = model
       /\ client = make_client(key)
  /\ started = FALSE
  /\ store = NoFile
  /\ last = None
  /\ nfile = File(<<"b","a","n","k",".","x","l","s","x">>, FALSE, NoTable)
  /\ nres = None

Next == Startup \/ Upload \/ Query

Spec == Init /\ [][Next]_vars

\* ------------------------------------------------------ normalizer harness
Normalize ==
  /\ nres = None
  /\ nres' = process_transactions(nfile)
  /\ UNCHANGED <<svars, nfile>>

InitNorm ==
  /\ GROQ_API_KEY = None /\ GROQ_MODEL = None /\ client = None
  /\ started = FALSE /\ store = NoFile /\ last = None
  /\ nfile \in NormFiles
  /\ nres = None

NextNorm == Normalize

SpecNorm == InitNorm /\ [][NextNorm]_vars

\* ====================================================== normalizer claims
\* The raw table the normalizer was given, seen by its column names.
Done == nres # None
RawCols == nfile.table.cols
RawRows == nfile.table.rows
ColName(i) == lower(strip(RawCols[i]))
HasNamed(word) == \E i \in DOMAIN RawCols : ColName(i) = word
RawCell(word, r) == RawRows[r][CHOOSE i \in DOMAIN RawCols : ColName(i) = word]
CellValue(c) == fillna(to_numeric(c), Num(0)).v
HasDescLike == _detect_columns(RawCols).desc # None
HasAmountLike == _detect_columns(RawCols).amt # None
HasDateLike == \E i \in DOMAIN RawCols : Contains(<<"d","a","t","e">>, ColName(i))
DateCell(r) == RawRows[r][CHOOSE i \in DOMAIN RawCols : Contains(<<"d","a","t","e">>, ColName(i))]
Dated(r) == HasDateLike /\ DateCell(r).t = "date"
NoGenericAmount ==
  \A i \in DOMAIN RawCols :
    ~Contains(<<"a","m","o","u","n","t">>, ColName(i)) /\ ColName(i) \notin {<<"a","m","t">>, <<"v","a","l","u","e">>}
CanonAmount(r) == nres.df.col[<<"A","m","o","u","n","t">>][r].v
CanonCategory(r) == nres.df.col[<<"C","a","t","e","g","o","r","y">>][r].v
RowCount == Len(RawRows)
AmountOver(rowSet) ==
  SumSeq([r \in 1..RowCount |-> IF r \in rowSet THEN CanonAmount(r) ELSE 0])

\* C4: a table with a description column and columns Debit and Credit but no
\* generic amount column normalizes to amount = credit - debit in every row
\* (a missing cell counted as 0), whatever the order of the two columns.
C4_DebitCreditOnly ==
  (Done /\ RawRows # <<>> /\ HasDescLike /\ HasNamed(<<"d","e","b","i","t">>) /\ HasNamed(<<"c","r","e","d","i","t">>)
     /\ NoGenericAmount)
    => /\ nres.ok
       /\ \A r \in 1..RowCount :
            CanonAmount(r)
              = CellValue(RawCell(<<"c","r","e","d","i","t">>, r)) - CellValue(RawCell(<<"d","e","b","i","t">>, r))

\* C5: a table with a valid signed amount column together with debit and
\* credit columns, in any column order, keeps in every row the value of the
\* signed amount column: the credit - debit fallback does not replace it.
C5_SignedAmountKept ==
  (Done /\ RawRows # <<>> /\ HasDescLike /\ HasNamed(<<"a","m","o","u","n","t">>) /\ HasNamed(<<"d","e","b","i","t">>)
     /\ HasNamed(<<"c","r","e","d","i","t">>)
     /\ \E r \in 1..RowCount : RawCell(<<"a","m","o","u","n","t">>, r).t = "num")
    => /\ nres.ok
       /\ \A r \in 1..RowCount : CanonAmount(r) = CellValue(RawCell(<<"a","m","o","u","n","t">>, r))

\* C6: in the Summary of every successfully normalized table the category
\* buckets sum to net_balance and every row falls in one of them,
\* total_income + total_expense = net_balance with total_income >= 0 and
\* total_expense <= 0, and rows is the number of rows of the raw table.
C6_SummaryTotals ==
  (Done /\ nres.ok)
    => /\ SumFn(nres.summary.category_summary) = nres.summary.net_balance
       /\ \A r \in 1..RowCount : CanonCategory(r) \in DOMAIN nres.summary.category_summary
       /\ nres.summary.total_income + nres.summary.total_expense = nres.summary.net_balance
       /\ nres.summary.total_income >= 0
       /\ nres.summary.total_expense <= 0
       /\ nres.summary.rows = RowCount

\* A two-row table with an inflow and an outflow in two different categories.
C6_Witness ==
  /\ Done /\ nres.ok
  /\ nres.summary.rows = 2
  /\ nres.summary.total_income > 0
  /\ nres.summary.total_expense < 0
  /\ Cardinality(DOMAIN nres.summary.category_summary) = 2

\* C7 as stated: whenever monthly_summary is non-empty its values sum to
\* net_balance.
C7_MonthlySumsToNet ==
  (Done /\ nres.ok /\ DOMAIN nres.summary.monthly_summary # {})
    => SumFn(nres.summary.monthly_summary) = nres.summary.net_balance

\* C7 amended: whenever monthly_summary is non-empty its values sum to the
\* total amount of the rows whose date parses, that is to net_balance less
\* the amounts of the rows without a parseable date.
C7_MonthlySumsDatedRows ==
  (Done /\ nres.ok /\ DOMAIN nres.summary.monthly_summary # {})
    => /\ SumFn(nres.summary.monthly_summary) = AmountOver({r \in 1..RowCount : Dated(r)})
       /\ SumFn(nres.summary.monthly_summary)
            = nres.summary.net_balance - AmountOver({r \in 1..RowCount : ~Dated(r)})

\* A table with a dated row and an undated row of non-zero amount.
C7_Witness ==
  /\ Done /\ nres.ok
  /\ DOMAIN nres.summary.monthly_summary # {}
  /\ \E r \in 1..RowCount : ~Dated(r) /\ CanonAmount(r) # 0

\* C8: a row without a parseable date is in no month bucket but is counted in
\* rows, in the totals and in one category bucket; a table with no date-like
\* column normalizes successfully with an empty monthly_summary.
C8_UndatedRows ==
  (Done /\ RawRows # <<>> /\ HasDescLike /\ HasAmountLike)
    => /\ nres.ok
       /\ \A k \in DOMAIN nres.summary.monthly_summary :
            nres.summary.monthly_summary[k]
              = AmountOver({r \in 1..RowCount : Dated(r) /\ strftime_Ym(DateCell(r)) = k})
       /\ nres.summary.rows = RowCount
       /\ nres.summary.net_balance = AmountOver(1..RowCount)
       /\ nres.summary.total_income = AmountOver({r \in 1..RowCount : CanonAmount(r) > 0})
       /\ nres.summary.total_expense = AmountOver({r \in 1..RowCount : CanonAmount(r) < 0})
       /\ \A r \in 1..RowCount : CanonCategory(r) \in DOMAIN nres.summary.category_summary
       /\ ~HasDateLike => DOMAIN nres.summary.monthly_summary = {}

\* C9: the category of a row is the value of the table's Category column when
\* that value is non-empty, and otherwise the label of the first matching
\* rule over the description (Others when none matches or it is missing).
C9_Category ==
  (Done /\ RawRows # <<>> /\ HasDescLike /\ HasAmountLike)
    => /\ nres.ok
       /\ \A r \in 1..RowCount :
            CanonCategory(r)
              = IF <<"C","a","t","e","g","o","r","y">> \in {strip(RawCols[i]) : i \in DOMAIN RawCols}
                   /\ RawCell(<<"c","a","t","e","g","o","r","y">>, r).t = "str"
                   /\ RawCell(<<"c","a","t","e","g","o","r","y">>, r).v # <<>>
                THEN RawCell(<<"c","a","t","e","g","o","r","y">>, r).v
                ELSE categorize(nres.df.col[<<"D","e","s","c","r","i","p","t","i","o","n">>][r])

\* ========================================================== server claims
IsUpload == last # None /\ last.op = "upload"
IsQuery == last # None /\ last.op = "query"
CredentialSet == Truthy(GROQ_API_KEY)
ModelSet == Truthy(GROQ_MODEL)
Undetectable(table) ==
  _detect_columns(table.cols).desc = None \/ _detect_columns(table.cols).amt = None
Parsed(file) == supported_extension(file.name) /\ file.readable /\ file.table.rows # <<>>

\* The upload failed on the format of its input: an unsupported extension, or
\* a saved file that cannot be read, holds no rows, or has no description-like
\* or no amount-like column.
InputFormatError(req) ==
  \/ ~supported_extension(req.file.name)
  \/ /\ req.save_ok
     /\ \/ ~req.file.readable
        \/ req.file.table.rows = <<>>
        \/ Undetectable(req.file.table)

\* C1: an upload either returns success with the store holding the canonical
\* dataset of the new file, or returns an error with the store as it was.
C1_UploadAtomic ==
  IsUpload
    => \/ /\ last.resp.status = 200
          /\ ProcessedUploads[last.file].ok
          /\ store = Pickle(ProcessedUploads[last.file].df)
       \/ /\ last.resp.status # 200
          /\ store = last.before

\* C2 as stated: a query with no stored dataset is answered not-found (404)
\* in every configuration of credential and model.
C2_NoStoreNotFound ==
  (IsQuery /\ last.before = NoFile) => last.resp.status = 404

\* C2 amended: a query with no stored dataset is answered not-found (404)
\* whenever the credential is configured, with or without a model; with the
\* credential absent it is answered service-unavailable (503).
C2_NoStoreByCredential ==
  (IsQuery /\ last.before = NoFile)
    => /\ CredentialSet => last.resp.status = 404
       /\ ~CredentialSet => last.resp.status = 503

\* A query with no stored dataset, a credential and no model: 404.
C2_Witness ==
  /\ IsQuery /\ last.before = NoFile
  /\ CredentialSet /\ ~ModelSet
  /\ last.resp.status = 404

\* C3: with the credential or the model identifier absent, a query (here of
\* a stored dataset) is answered service-unavailable (503), and an upload of
\* a well-formed file still succeeds.
C3_UnconfiguredUnavailable ==
  /\ (IsQuery /\ last.before.t = "pickle" /\ (~CredentialSet \/ ~ModelSet))
       => last.resp.status = 503
  /\ (IsUpload /\ (~CredentialSet \/ ~ModelSet) /\ last.save_ok
        /\ Parsed(last.file) /\ ProcessedUploads[last.file].ok)
       => last.resp.status = 200

\* C10, the failed upload itself: a client error, the store as it was, and
\* the stripped column names in the error when the columns are undetectable.
C10_FailedUpload ==
  (IsUpload /\ InputFormatError(last))
    => /\ last.resp.status = 400
       /\ store = last.before
       /\ (last.save_ok /\ Parsed(last.file) /\ Undetectable(last.file.table))
            => last.resp.columns
                 = [i \in DOMAIN last.file.table.cols |-> strip(last.file.table.cols[i])]

\* C10, the query that follows a failed upload: what it reads is the dataset
\* that was stored before that upload.
C10_QueryAfter ==
  (IsUpload /\ InputFormatError(last) /\ last'.op = "query" /\ last'.resp.read # None)
    => /\ last.before.t = "pickle"
       /\ last'.resp.read = last.before.df

\* C10: an upload that fails on the format of its input is answered with a
\* client error (400), which lists every column name found when the columns
\* cannot be detected, and leaves the store as it was; a query that follows
\* reads the dataset stored before the failed upload.
C10_InputErrorKeepsStore == [](C10_FailedUpload) /\ [][C10_QueryAfter]_vars

\* A failed upload (no description-like column) over a stored dataset.
C10_Witness ==
  /\ IsUpload /\ last.save_ok /\ Parsed(last.file) /\ Undetectable(last.file.table)
  /\ last.resp.status = 400
  /\ last.resp.columns # <<>>
  /\ last.before.t = "pickle"
  /\ store = last.before

====
